---- MODULE Spec2Model ----
(***************************************************************************)
(* The episode-ingestion pipeline of quickStart.py: the AddEpisodes batch  *)
(* handler (add_episodes.process_all), the extractor's parse-and-filter    *)
(* (extract_structured_json), the upsert (insert_structured_graph) and the *)
(* Clear handler, over a graph store that holds Episode nodes, Entity      *)
(* nodes, MENTIONS edges and typed relationship edges.                     *)
(*                                                                         *)
(* Requests are handled one at a time: each handler blocks in asyncio.run  *)
(* until its coroutine has finished.  The batch is read front to back, so  *)
(* its elements are drawn one by one as the loop reaches them.             *)
(*                                                                         *)
(* JSON objects are records; a key that is absent reads as the value       *)
(* .get() gives for it ("" stands for a missing or empty string, <<>> for  *)
(* a missing list).  The store is a multiset of nodes and edges, so that a *)
(* duplicate is a state the model can tell from no duplicate.              *)
(***************************************************************************)
EXTENDS Bags, FiniteSets, Integers, Sequences, TLC

\* ------------------------------------------------------------------ bounds
\* The longest batch; the longest node list of a structured graph; the longest
\* edge list of a graph insert_structured_graph is called with on its own, and of
\* a graph the LLM answers with inside a batch.
MaxBatch == 2
MaxNodes == 1
MaxEdges == 2
MaxLlmEdges == 1

\* ------------------------------------------------------------------ inputs
EpisodeNames == {"Ep1", "Ep2"}
\* The episode names the requests of a batch carry.
RequestNames == {"Ep1"}
EntityNames == {"Alice", "Yoga"}
\* Relationship types the LLM may answer with: one of the vocabulary, one not.
LlmTypes == {"practices", "mentions_on"}

\* quickStart.py:15-17
ALLOWED_RELATION_TYPES ==
  {"does", "performs", "includes", "happens_on", "focuses_on", "practices"}

SeqsUpTo(S, k) == UNION {[1..m -> S] : m \in 0..k}

\* {"name": <entity>}; "" is a node whose name is missing or empty.
LlmNodes == [name : EntityNames \cup {""}]
\* {"source", "target", "type"}: Alice and either entity under a type of the
\* vocabulary, and one edge of a type outside it.
LlmEdges ==
  [source : {"Alice"}, target : EntityNames, type : LlmTypes \cap ALLOWED_RELATION_TYPES]
    \cup [source : {"Alice"}, target : {"Yoga"}, type : LlmTypes \ ALLOWED_RELATION_TYPES]
\* The JSON objects of the shape the prompt asks for.
StructuredGraphs ==
  [nodes : SeqsUpTo(LlmNodes, MaxNodes), edges : SeqsUpTo(LlmEdges, MaxEdges)]

\* The empty dict {}: what `if structured_json:` takes for false.  An object whose
\* lists are both empty stands for it: neither issues a store write.
EmptyDict == [nodes |-> <<>>, edges |-> <<>>]

\* What the completion call can end with: it raises; text that is no JSON; JSON
\* that is no object (a number); a JSON object.
LlmResponses ==
  {[kind |-> "raises"], [kind |-> "not_json"], [kind |-> "not_object"]}
    \cup {[kind |-> "object", json |-> g] :
            g \in {h \in StructuredGraphs : Len(h.edges) <= MaxLlmEdges}}

\* One element of the request's list: a JSON object with the fields the handler
\* reads, or a JSON value that is no object.
IsoTime == "2024-01-01T00:00:00"
EpisodeRequests ==
  [kind : {"object"}, name : RequestNames \cup {""}, content : {"", "text"},
   reference_time : {"", IsoTime, "yesterday"}]
    \cup {[kind |-> "not_object"]}
NoEpisode == [kind |-> "none"]

\* ------------------------------------------------------------------- store
\* The graph store: Episode nodes by name, and multisets of Entity nodes (by
\* name), MENTIONS edges <<episode, entity>> and relationship edges
\* <<source, target, type>>.
EmptyStore ==
  [Episode |-> {}, Entity |-> EmptyBag, MENTIONS |-> EmptyBag, REL |-> EmptyBag]

One(x) == SetToBag({x})

\* A store call's record in the log: which call, and how it ended.
Called(call, result) == [call |-> call, result |-> result]

\* MERGE (n:Entity {name: $name}): create the node unless one has the name.
MergeEntityCreate(db, name) ==
  [db |-> [db EXCEPT !.Entity = @ (+) One(name)], result |-> "created"]

MergeEntity(db, name) ==
  IF BagIn(name, db.Entity)
  THEN [db |-> db, result |-> "matched"]
  ELSE [db |-> [db EXCEPT !.Entity = @ (+) One(name)], result |-> "created"]

\* MATCH (e:Episode {name}) MATCH (n:Entity {name}) MERGE (e)-[:MENTIONS]->(n):
\* no row, and no write, unless both nodes exist.
MergeMentions(db, episode_name, entity_name) ==
  IF episode_name \notin db.Episode \/ ~BagIn(entity_name, db.Entity)
  THEN [db |-> db, result |-> "no_match"]
  ELSE IF BagIn(<<episode_name, entity_name>>, db.MENTIONS)
  THEN [db |-> db, result |-> "matched"]
  ELSE [db |-> [db EXCEPT !.MENTIONS = @ (+) One(<<episode_name, entity_name>>)],
        result |-> "created"]

\* MATCH (a:Entity {name: $source}) MATCH (b:Entity {name: $target})
\* MERGE (a)-[r:`rel_type`]->(b)
MergeRelCreate(db, source, target, rel_type) ==
  IF ~BagIn(source, db.Entity) \/ ~BagIn(target, db.Entity)
  THEN [db |-> db, result |-> "no_match"]
  ELSE [db |-> [db EXCEPT !.REL = @ (+) One(<<source, target, rel_type>>)],
        result |-> "created"]

MergeRelEndpoints(db, source, target, rel_type) ==
  [db |-> [db EXCEPT !.REL = @ (+) One(<<source, target, rel_type>>)],
   result |-> "created"]

MergeRel(db, source, target, rel_type) ==
  IF ~BagIn(source, db.Entity) \/ ~BagIn(target, db.Entity)
  THEN [db |-> db, result |-> "no_match"]
  ELSE IF BagIn(<<source, target, rel_type>>, db.REL)
  THEN [db |-> db, result |-> "matched"]
  ELSE [db |-> [db EXCEPT !.REL = @ (+) One(<<source, target, rel_type>>)],
        result |-> "created"]

\* graphiti.add_episode, when it returns: the Episode node of that name exists
\* (the node the MENTIONS query matches by name).
AddEpisodeNode(db, name) == [db EXCEPT !.Episode = @ \cup {name}]

\* clear_data(driver), "Clear all graph data": every node and edge is deleted.
ClearData(db) == EmptyStore

\* ------------------------------------------------------------------ upsert
\* A session in progress: the store, what the loops have done so far (the calls
\* issued and the edges skipped), the number of calls issued, whether one has
\* raised, and failAt, the call that will raise (0: none does).
Session(db, failAt) ==
  [db |-> db, log |-> <<>>, calls |-> 0, raised |-> FALSE, failAt |-> failAt]

\* await session.run(query): nothing more is issued once a call has raised.
Run(S, call, r) ==
  IF S.raised THEN S
  ELSE IF S.failAt = S.calls + 1
  THEN [S EXCEPT !.raised = TRUE, !.calls = @ + 1,
                 !.log = Append(@, Called(call, "raised"))]
  ELSE [S EXCEPT !.db = r.db, !.calls = @ + 1,
                 !.log = Append(@, Called(call, r.result))]

\* `if name:` of the node loop
NodeIsWritten(name) == name # ""

\* One node of the loop: the Entity MERGE, then the MENTIONS MERGE.
InsertNode(S, node, episode_name) ==
  IF ~NodeIsWritten(node.name) THEN S
  ELSE LET S1 == Run(S, "merge_entity", MergeEntity(S.db, node.name))
       IN Run(S1, "merge_mentions", MergeMentions(S1.db, episode_name, node.name))

\* `if rel_type not in ALLOWED_RELATION_TYPES: continue`
InsertSkipsNothing(rel_type) == FALSE

InsertSkips(rel_type) == rel_type \notin ALLOWED_RELATION_TYPES

\* One edge of the loop.
InsertEdge(S, edge) ==
  IF InsertSkips(edge.type)
  THEN [S EXCEPT !.log = Append(@, Called("continue", "skipped"))]
  ELSE Run(S, "merge_rel", MergeRel(S.db, edge.source, edge.target, edge.type))

RECURSIVE InsertNodes(_, _, _)
InsertNodes(S, nodes, episode_name) ==
  IF nodes = <<>> \/ S.raised THEN S
  ELSE InsertNodes(InsertNode(S, Head(nodes), episode_name), Tail(nodes), episode_name)

RECURSIVE InsertEdges(_, _)
InsertEdges(S, edges) ==
  IF edges = <<>> \/ S.raised THEN S
  ELSE InsertEdges(InsertEdge(S, Head(edges)), Tail(edges))

\* insert_structured_graph(driver, structured_data, episode_name): the nodes, then
\* the edges, each write its own session.run.
insert_structured_graph(db, structured_data, episode_name, failAt) ==
  InsertEdges(
    InsertNodes(Session(db, failAt), structured_data.nodes, episode_name),
    structured_data.edges)

\* The session.run calls an upsert of this graph issues when none raises.
NumWrites(g) ==
  2 * Cardinality({k \in DOMAIN g.nodes : NodeIsWritten(g.nodes[k].name)})
    + Cardinality({k \in DOMAIN g.edges : ~InsertSkips(g.edges[k].type)})

\* --------------------------------------------------------------- extractor
\* `if edge.get("type") in ALLOWED_RELATION_TYPES` of the extractor's filter
ExtractorKeepsAll(edge) == TRUE

ExtractorKeeps(edge) == edge.type \in ALLOWED_RELATION_TYPES

\* The except branch of extract_structured_json: log, and return {}.
OnJSONDecodeErrorRaise == [raised |-> TRUE, value |-> EmptyDict]

OnJSONDecodeError == [raised |-> FALSE, value |-> EmptyDict]

\* extract_structured_json(text), from the completion call on: the call may raise;
\* json.loads raises JSONDecodeError on text that is no JSON, which is caught;
\* `"edges" in structured_data` raises TypeError on a number, which is not; an
\* object is returned with its edges filtered and its nodes as they are.
extract_structured_json(resp) ==
  CASE resp.kind = "raises" -> [raised |-> TRUE, value |-> EmptyDict]
    [] resp.kind = "not_json" -> OnJSONDecodeError
    [] resp.kind = "not_object" -> [raised |-> TRUE, value |-> EmptyDict]
    [] resp.kind = "object" ->
         [raised |-> FALSE,
          value |-> [resp.json EXCEPT !.edges = SelectSeq(@, ExtractorKeeps)]]

\* ------------------------------------------------------------ orchestrator
\* datetime.fromisoformat on the reference_time strings of EpisodeRequests
ParsesAsIso(s) == s = IsoTime

\* `if not name or not content`
MissingNameOrContentNameOnly(req) == req.name = ""

MissingNameOrContent(req) == req.name = "" \/ req.content = ""

\* `if reference_time:` and the parse under it
InvalidReferenceTime(req) ==
  req.reference_time # "" /\ ~ParsesAsIso(req.reference_time)

\* The per-episode outcomes appended to results.  `structured` is the object the
\* success outcome carries.
Outcome(name, status, text, structured) ==
  [name |-> name, status |-> status, text |-> text, structured |-> structured]
MissingOutcome ==
  Outcome("", "error", "Missing name or content for one episode", EmptyDict)
InvalidTimeOutcome(name) ==
  Outcome(name, "error", "Invalid reference_time for episode", EmptyDict)
ErrorOutcome(name) == Outcome(name, "error", "str(e)", EmptyDict)
SuccessOutcome(name, structured) ==
  Outcome(name, "message", "Episode added successfully", structured)

\* `if structured_json:`
Truthy(structured_json) == structured_json # EmptyDict

\* The try block of one iteration from the extraction on (the episode is
\* written): extract, upsert if the extraction is not empty, append the outcome.
\* Any exception ends the iteration with the error outcome.
FinishEpisode(db, name, resp, failAt) ==
  LET x == extract_structured_json(resp)
      llmCall == Called("llm", IF resp.kind = "raises" THEN "raised" ELSE "returned")
  IN IF x.raised
     THEN [db |-> db, log |-> <<llmCall>>, structured_json |-> x.value,
           outcome |-> ErrorOutcome(name)]
     ELSE IF ~Truthy(x.value)
     THEN [db |-> db, log |-> <<llmCall>>, structured_json |-> x.value,
           outcome |-> SuccessOutcome(name, x.value)]
     ELSE LET S == insert_structured_graph(db, x.value, name, failAt)
          IN [db |-> S.db, log |-> <<llmCall>> \o S.log, structured_json |-> x.value,
              outcome |-> IF S.raised THEN ErrorOutcome(name)
                          ELSE SuccessOutcome(name, x.value)]

\* The failAt values that name a call of this iteration (0: no call raises).
FailPoints(resp) ==
  LET x == extract_structured_json(resp)
  IN IF x.raised \/ ~Truthy(x.value) THEN {0} ELSE 0..NumWrites(x.value)

\* What results keeps of an outcome: the fields that identify it.  The structured
\* object an outcome carries is FinishEpisode's; the state does not keep it, as
\* nothing reads it after the append.
Summary(o) == [name |-> o.name, status |-> o.status, text |-> o.text]

\* ------------------------------------------------------------------- state
VARIABLES
  db,               \* the graph store
  pc,               \* where the handler in progress is ("idle": none is)
  taken,            \* the elements of the batch the loop has reached
  ep,               \* the element the current iteration is about
  llm,              \* how the completion call of the current iteration ended
  results,          \* process_all's results
  issued,           \* the store and LLM calls of the current iteration, in order
  response          \* the last response sent

vars == <<db, pc, taken, ep, llm, results, issued, response>>

Response(endpoint, status, body) ==
  [endpoint |-> endpoint, status |-> status, body |-> body]
NoResponse == Response("none", 0, <<>>)

Init ==
  /\ db = EmptyStore
  /\ pc = "idle"
  /\ taken = 0
  /\ ep = NoEpisode
  /\ llm = "none"
  /\ results = <<>>
  /\ issued = <<>>
  /\ response = NoResponse

\* POST /AddEpisodes with a body that is no list.
AddEpisodesNotList ==
  /\ pc = "idle"
  /\ response' = Response("AddEpisodes", 400, <<>>)
  /\ UNCHANGED <<db, pc, taken, ep, llm, results, issued>>

\* POST /AddEpisodes with a list: process_all starts.
AddEpisodes ==
  /\ pc = "idle"
  /\ pc' = "loop"
  /\ taken' = 0
  /\ results' = <<>>
  /\ response' = NoResponse
  /\ UNCHANGED <<db, ep, llm, issued>>

\* The head of one iteration, up to the try block: read the fields, validate,
\* parse the reference time.  ep.get on an element that is no object raises
\* outside the try block: the handler ends with the server's 500.
Validate(req) ==
  /\ pc = "loop"
  /\ taken < MaxBatch
  /\ taken' = taken + 1
  /\ ep' = req
  /\ UNCHANGED <<db, llm, issued>>
  /\ IF req.kind = "not_object"
     THEN /\ pc' = "idle"
          /\ results' = <<>>
          /\ response' = Response("AddEpisodes", 500, <<>>)
     ELSE /\ UNCHANGED response
          /\ IF MissingNameOrContent(req)
             THEN pc' = "emitted" /\ results' = Append(results, Summary(MissingOutcome))
             ELSE IF InvalidReferenceTime(req)
             THEN /\ pc' = "emitted"
                  /\ results' = Append(results, Summary(InvalidTimeOutcome(req.name)))
             ELSE pc' = "add_episode" /\ UNCHANGED results

\* await graphiti.add_episode(...): it returns, or raises into the except branch.
WriteEpisodeSwallows(ok) ==
  /\ pc = "add_episode"
  /\ issued' = <<Called("add_episode", IF ok THEN "returned" ELSE "raised")>>
  /\ db' = IF ok THEN AddEpisodeNode(db, ep.name) ELSE db
  /\ pc' = "extract"
  /\ UNCHANGED <<taken, ep, llm, results, response>>

WriteEpisode(ok) ==
  /\ pc = "add_episode"
  /\ IF ok
     THEN /\ db' = AddEpisodeNode(db, ep.name)
          /\ issued' = <<Called("add_episode", "returned")>>
          /\ pc' = "extract"
          /\ UNCHANGED results
     ELSE /\ issued' = <<Called("add_episode", "raised")>>
          /\ results' = Append(results, Summary(ErrorOutcome(ep.name)))
          /\ pc' = "emitted"
          /\ UNCHANGED db
  /\ UNCHANGED <<taken, ep, llm, response>>

\* The rest of the try block.
ExtractAndUpsert(resp, failAt) ==
  /\ pc = "extract"
  /\ failAt \in FailPoints(resp)
  /\ LET r == FinishEpisode(db, ep.name, resp, failAt)
     IN /\ db' = r.db
        /\ issued' = issued \o r.log
        /\ results' = Append(results, Summary(r.outcome))
  /\ llm' = resp.kind
  /\ pc' = "emitted"
  /\ UNCHANGED <<taken, ep, response>>

\* Back to the head of the loop.
Continue ==
  /\ pc = "emitted"
  /\ pc' = "loop"
  /\ ep' = NoEpisode
  /\ llm' = "none"
  /\ issued' = <<>>
  /\ UNCHANGED <<db, taken, results, response>>

\* The list is exhausted: return jsonify(result).
Return ==
  /\ pc = "loop"
  /\ pc' = "idle"
  /\ response' = Response("AddEpisodes", 200, results)
  /\ results' = <<>>
  /\ UNCHANGED <<db, taken, ep, llm, issued>>

\* POST /Clear
Clear ==
  /\ pc = "idle"
  /\ db' = ClearData(db)
  /\ response' = Response("Clear", 200, <<>>)
  /\ UNCHANGED <<pc, taken, ep, llm, results, issued>>

Next ==
  \/ AddEpisodesNotList
  \/ AddEpisodes
  \/ \E req \in EpisodeRequests : Validate(req)
  \/ \E ok \in BOOLEAN : WriteEpisode(ok)
  \/ \E resp \in LlmResponses : \E failAt \in 0..(2 * MaxNodes + MaxLlmEdges) :
       ExtractAndUpsert(resp, failAt)
  \/ Continue
  \/ Return
  \/ Clear

Spec == Init /\ [][Next]_vars

\* ------------------------------------------------- the upsert on its own
\* insert_structured_graph called with any structured graph and any episode
\* name, on a store that add_episode and clear_data also act on.
CallAddEpisode(name) ==
  /\ pc = "idle"
  /\ db' = AddEpisodeNode(db, name)
  /\ UNCHANGED <<pc, taken, ep, llm, results, issued, response>>

CallInsert(g, episode_name, failAt) ==
  /\ pc = "idle"
  /\ failAt \in 0..NumWrites(g)
  /\ LET S == insert_structured_graph(db, g, episode_name, failAt)
     IN db' = S.db /\ issued' = S.log
  /\ pc' = "inserted"
  /\ UNCHANGED <<taken, ep, llm, results, response>>

InsertReturns ==
  /\ pc = "inserted"
  /\ pc' = "idle"
  /\ issued' = <<>>
  /\ UNCHANGED <<db, taken, ep, llm, results, response>>

NextUpsert ==
  \/ \E name \in EpisodeNames : CallAddEpisode(name)
  \/ \E g \in StructuredGraphs : \E name \in EpisodeNames :
       \E failAt \in 0..(2 * MaxNodes + MaxEdges) : CallInsert(g, name, failAt)
  \/ InsertReturns
  \/ Clear

SpecUpsert == Init /\ [][NextUpsert]_vars

\* ------------------------------------------------------------------ claims
Entities(store) == BagToSet(store.Entity)
EdgeKey(edge) == <<edge.source, edge.target, edge.type>>
InVocabulary(edge) == edge.type \in ALLOWED_RELATION_TYPES
LastOutcome == results[Len(results)]
Issued(call, result) == \E k \in DOMAIN issued : issued[k] = Called(call, result)
NoDuplicates(store) ==
  /\ \A n \in BagToSet(store.Entity) : CopiesIn(n, store.Entity) = 1
  /\ \A m \in BagToSet(store.MENTIONS) : CopiesIn(m, store.MENTIONS) = 1
  /\ \A r \in BagToSet(store.REL) : CopiesIn(r, store.REL) = 1

\* C1: whatever graphs insert_structured_graph has been called with, filtered by
\* the extractor or not, every relationship edge in the store has a type of the
\* vocabulary.
C1_EdgeTypesInVocabulary ==
  \A r \in BagToSet(db.REL) : r[3] \in ALLOWED_RELATION_TYPES

\* An upsert that skipped an edge of a type outside the vocabulary and created one
\* of a type inside it.
C1_Witness ==
  /\ pc = "inserted"
  /\ Issued("continue", "skipped")
  /\ Issued("merge_rel", "created")

\* C2: from every store the calls can reach, for every structured graph and every
\* episode name, a second insert_structured_graph with the same input leaves the
\* store as the first left it, and the first leaves no Entity, MENTIONS edge or
\* relationship edge twice in the store (no store call raising).
C2_UpsertIdempotent ==
  pc = "idle" =>
    \A g \in StructuredGraphs : \A e \in EpisodeNames :
      LET once == insert_structured_graph(db, g, e, 0).db
          twice == insert_structured_graph(once, g, e, 0).db
      IN twice = once /\ NoDuplicates(once)

\* An upsert that found its entity, its MENTIONS edge and its relationship edge
\* already in the store.
C2_Witness ==
  /\ pc = "inserted"
  /\ Issued("merge_entity", "matched")
  /\ Issued("merge_mentions", "matched")
  /\ Issued("merge_rel", "matched")
  /\ \A k \in DOMAIN issued : issued[k].result = "matched"

\* C7: an upsert none of whose store calls raises runs to its end; an edge of a
\* vocabulary type one of whose endpoints is no Entity when the edge loop runs
\* (neither in the store before nor a named node of the graph) is not created and
\* its missing endpoint is not created either; every named node is an Entity
\* afterwards, linked from the episode when the Episode node exists; and every
\* other edge of a vocabulary type is in the store.
C7_EdgeFailureContained ==
  pc = "idle" =>
    \A g \in StructuredGraphs : \A e \in EpisodeNames :
      LET S == insert_structured_graph(db, g, e, 0)
          named == {g.nodes[k].name : k \in DOMAIN g.nodes} \ {""}
          present == Entities(db) \cup named
          valid == {k \in DOMAIN g.edges : InVocabulary(g.edges[k])}
          dangling == {k \in valid : g.edges[k].source \notin present
                                       \/ g.edges[k].target \notin present}
      IN /\ ~S.raised
         /\ Entities(S.db) = present
         /\ \A k \in dangling : ~BagIn(EdgeKey(g.edges[k]), S.db.REL)
         /\ \A k \in valid \ dangling : BagIn(EdgeKey(g.edges[k]), S.db.REL)
         /\ \A n \in named : e \in db.Episode => BagIn(<<e, n>>, S.db.MENTIONS)

\* An upsert one of whose edges matched no endpoints and a later edge of which
\* was created.
C7_Witness ==
  /\ pc = "inserted"
  /\ \E j, k \in DOMAIN issued :
       /\ j < k
       /\ issued[j] = Called("merge_rel", "no_match")
       /\ issued[k] = Called("merge_rel", "created")

\* C3 (as claimed): a batch of N elements is answered with N outcomes.
C3_OneOutcomePerRequest ==
  (pc = "idle" /\ response.endpoint = "AddEpisodes" /\ response.status # 400) =>
    (response.status = 200 /\ Len(response.body) = taken)

\* C4: an element whose name or content is missing or empty, or whose
\* reference_time does not parse, ends with its error outcome and with no call to
\* the store or the LLM issued for it; only valid elements reach the try block.
C4_InvalidRequestTouchesNothing ==
  LET invalid == \/ ep.name = ""
                 \/ ep.content = ""
                 \/ (ep.reference_time # "" /\ ep.reference_time # IsoTime)
  IN /\ (pc = "emitted" /\ invalid) =>
          /\ issued = <<>>
          /\ llm = "none"
          /\ LastOutcome.status = "error"
          /\ LastOutcome.text \in {MissingOutcome.text, InvalidTimeOutcome("").text}
          /\ LastOutcome.text = MissingOutcome.text <=> (ep.name = "" \/ ep.content = "")
     /\ pc \in {"add_episode", "extract"} => (ep.kind = "object" /\ ~invalid)

\* An element with a name and no content has ended.
C4_Witness ==
  pc = "emitted" /\ ep.name # "" /\ ep.content = "" /\ Len(results) = taken

\* C5: on LLM text that is no JSON the extractor returns the empty graph without
\* raising, and the episode ends with the success outcome (carrying the empty
\* graph), its Episode node written and no call but add_episode and the LLM's
\* issued.
C5_ParseFailureDegrades ==
  /\ pc = "extract" =>
       LET r == FinishEpisode(db, ep.name, [kind |-> "not_json"], 0)
       IN /\ r.outcome = SuccessOutcome(ep.name, EmptyDict)
          /\ r.db = db
  /\ (pc = "emitted" /\ llm = "not_json") =>
       /\ LastOutcome = Summary(SuccessOutcome(ep.name, EmptyDict))
       /\ ep.name \in db.Episode
       /\ issued = <<Called("add_episode", "returned"), Called("llm", "returned")>>

C5_Witness == pc = "emitted" /\ llm = "not_json" /\ Len(results) = taken

\* C6: in one iteration the first call is add_episode; the LLM is called and the
\* store is written only after add_episode has returned, the LLM before any
\* merge; when add_episode raises the iteration ends with the error outcome and
\* nothing else is issued; a MENTIONS edge is created only from an Episode node
\* that exists.
C6_EpisodeWriteComesFirst ==
  /\ \A k \in DOMAIN issued :
       /\ (issued[k].call = "add_episode") <=> (k = 1)
       /\ (issued[k].call = "llm") <=> (k = 2)
       /\ k > 1 => (issued[1].result = "returned" /\ ep.name \in db.Episode)
  /\ (issued # <<>> /\ issued[1].result = "raised") =>
       (pc = "emitted" /\ LastOutcome = Summary(ErrorOutcome(ep.name)))
  /\ pc = "extract" => issued = <<Called("add_episode", "returned")>>
  /\ \A m \in BagToSet(db.MENTIONS) : m[1] \in db.Episode

\* An iteration that wrote the episode, called the LLM and created an Entity and
\* its MENTIONS edge.
C6_Witness ==
  /\ pc = "emitted"
  /\ Issued("merge_entity", "created")
  /\ Issued("merge_mentions", "created")

\* C8 (as claimed): an iteration that wrote part of its graph and not the rest (a
\* call raised, or an edge matched no endpoints) does not end with the plain
\* success outcome.
C8_PartialApplicationSurfaced ==
  (/\ pc = "emitted"
   /\ \E k \in DOMAIN issued : issued[k].result = "created"
   /\ \E k \in DOMAIN issued : issued[k].result \in {"no_match", "raised"}) =>
    LastOutcome.text # SuccessOutcome("", EmptyDict).text

\* C9: when the LLM answers with a JSON object and the iteration ends with the
\* success outcome, every named node is an Entity with a MENTIONS edge from this
\* episode, every edge of a vocabulary type whose endpoints are Entities is in the
\* store exactly once, and the outcome carries the nodes as answered and exactly
\* the edges of a vocabulary type.
C9_SucceededPostcondition ==
  pc = "extract" =>
    \A resp \in {x \in LlmResponses : x.kind = "object"} :
      \A failAt \in FailPoints(resp) :
        LET r == FinishEpisode(db, ep.name, resp, failAt)
            g == resp.json
        IN r.outcome.status = "message" =>
             /\ \A k \in DOMAIN g.nodes :
                  g.nodes[k].name # "" =>
                    /\ BagIn(g.nodes[k].name, r.db.Entity)
                    /\ BagIn(<<ep.name, g.nodes[k].name>>, r.db.MENTIONS)
             /\ \A k \in DOMAIN g.edges :
                  (/\ InVocabulary(g.edges[k])
                   /\ g.edges[k].source \in Entities(r.db)
                   /\ g.edges[k].target \in Entities(r.db)) =>
                    CopiesIn(EdgeKey(g.edges[k]), r.db.REL) = 1
             /\ r.outcome.structured =
                  [nodes |-> g.nodes, edges |-> SelectSeq(g.edges, InVocabulary)]

\* A succeeded iteration on a JSON object that created an Entity, its MENTIONS
\* edge and a relationship edge.
C9_Witness ==
  /\ pc = "emitted"
  /\ llm = "object"
  /\ LastOutcome.status = "message"
  /\ Issued("merge_entity", "created")
  /\ Issued("merge_mentions", "created")
  /\ Issued("merge_rel", "created")

\* C10: every relationship edge joins two Entity nodes of the store, every
\* MENTIONS edge goes from an Episode node of the store to an Entity node of the
\* store, no name has two Entity nodes, and the store is empty when Clear has
\* answered.
C10_StoreInvariant ==
  /\ \A r \in BagToSet(db.REL) : r[1] \in Entities(db) /\ r[2] \in Entities(db)
  /\ \A m \in BagToSet(db.MENTIONS) : m[1] \in db.Episode /\ m[2] \in Entities(db)
  /\ \A n \in Entities(db) : CopiesIn(n, db.Entity) = 1
  /\ response.endpoint = "Clear" => db = EmptyStore

\* A store with both entities, a MENTIONS edge and a relationship edge.
C10_Witness ==
  /\ Entities(db) = EntityNames
  /\ db.MENTIONS # EmptyBag
  /\ db.REL # EmptyBag

====
